---- MODULE Spec2Model ----
(***************************************************************************)
(* correlnet: correlation networks.                                        *)
(*                                                                         *)
(* A model of the build pipeline of src/correlnet/correlnet.py             *)
(* (correlnet() -> CorrelNet.__init__ -> Correlater.pairwise_correlations  *)
(* -> Embedder.embed) and of the queries on a built network (plot,         *)
(* to_graph, assignment to alpha).                                         *)
(*                                                                         *)
(* Numbers.  A p-value or threshold x/PScale is written as the integer x,  *)
(* so 1.0 is PScale.  A statistic is -1, 0 or 1.  A cell of a pivoted      *)
(* matrix is <<v>> for the value v and <<>> for NaN (a missing entry).  A  *)
(* variable name is an integer; the order of the integers is the sort      *)
(* order of the names.                                                     *)
(***************************************************************************)
EXTENDS Integers, Sequences, FiniteSets, TLC

\* ------------------------------------------------------------------------
\* Bounds of the model
\* ------------------------------------------------------------------------
MaxN == 2
PScale == 100

None == "None"
NaN == <<>>

Names == 1..MaxN

\* Column orders of the input table: every ordering of the names 1..n.
Tables ==
  UNION {{c \in [1..n -> 1..n] : \A a, b \in 1..n : a # b => c[a] # c[b]} : n \in 1..MaxN}

\* Thresholds a caller may pass: below 0, 0, 0.02, 1.0, above 1.
AlphaVals == {-1, 0, 2, PScale, PScale + 1}

\* What a correlation method may return for one pair of columns:
\* identical (1, p = 0), significant (1, p = 0.01), insignificant (-1, p = 0.5).
MethodResults ==
  {[statistic |-> 1, pvalue |-> 0],
   [statistic |-> 1, pvalue |-> 1],
   [statistic |-> -1, pvalue |-> PScale \div 2]}

BuiltinMethods == {"pearson", "spearman", "kendall"}
Methods == BuiltinMethods \cup {"callable", "bogus_method"}
Corrections == {"bonferroni", None, "", "bogus_correction"}
Embeddings == {"random", "var_tsne", "correl_tsne", "EmbedderObject", "bogus_embedding"}

VARIABLES
  pc,         \* position of the build: correlnet, init, cor_fn, pairs, embed, done, failed
  err,        \* the exception that left the build, or None
  net,        \* TRUE once correlnet() has returned a CorrelNet to the caller
  method,     \* Correlater.method
  correction, \* Correlater.correction
  embedding,  \* the embedding argument of correlnet()
  embedder,   \* CorrelNet.embedder: [kind, use_abs]
  self_vars,  \* CorrelNet.vars
  alpha,      \* CorrelNet.alpha
  cor_dfs,    \* the local list cor_dfs of pairwise_correlations
  calls,      \* every call of the method function so far: arguments and result
  ncorrect,   \* number of calls of multipletests
  nembed,     \* number of calls of Embedder.embed
  embed_arg,  \* the correl_df argument of the last call of Embedder.embed
  correl_df,  \* CorrelNet.correl_df
  pos_df,     \* CorrelNet.pos_df
  tsne_in,    \* the matrix handed to TSNE.fit_transform
  warned,     \* TRUE once fit_tsne has logged "replacing NaNs with 0 for t-SNE"
  out         \* what the last query handed out: plot's arguments to the renderer, or a graph

vars ==
  <<pc, err, net, method, correction, embedding, embedder, self_vars, alpha, cor_dfs, calls,
    ncorrect, nembed, embed_arg, correl_df, pos_df, tsne_in, warned, out>>

\* ------------------------------------------------------------------------
\* Helpers
\* ------------------------------------------------------------------------
Min(a, b) == IF a <= b THEN a ELSE b

\* list.index(x): 0-based position of the first occurrence
ListIndex(s, x) == (CHOOSE k \in 1..Len(s) : s[k] = x /\ \A m \in 1..(k - 1) : s[m] # x) - 1


\* ------------------------------------------------------------------------
\* Correlater (src/correlnet/correlater.py)
\* ------------------------------------------------------------------------

\* cor_fn without its final raise: an unknown method is returned as it is
cor_fn_fallthrough(m) ==
  IF m = "pearson" THEN "pearsonr"
  ELSE IF m = "spearman" THEN "spearmanr"
  ELSE IF m = "kendall" THEN "kendalltau"
  ELSE "callable"

\* Correlater.cor_fn: the function for self.method, or NotImplementedError
cor_fn(m) ==
  IF m = "pearson" THEN "pearsonr"
  ELSE IF m = "spearman" THEN "spearmanr"
  ELSE IF m = "kendall" THEN "kendalltau"
  ELSE IF m = "callable" THEN "callable"
  ELSE "NotImplementedError"

\* What cor_fn(df[var_1], df[var_2]) may return.  The scipy functions are
\* deterministic and symmetric and give (1, 0) for a column against itself;
\* a caller's function may return anything for any ordered pair.
MethodOut(fn, var_1, var_2, done) ==
  IF fn = "callable" THEN MethodResults
  ELSE IF var_1 = var_2 THEN {[statistic |-> 1, pvalue |-> 0]}
  ELSE IF \E k \in 1..Len(done) : done[k].var_1 = var_2 /\ done[k].var_2 = var_1
    THEN LET k == CHOOSE k \in 1..Len(done) : done[k].var_1 = var_2 /\ done[k].var_2 = var_1
         IN {[statistic |-> done[k].statistic, pvalue |-> done[k].pvalue]}
  ELSE MethodResults

\* The pair the loops of pairwise_correlations evaluate after k evaluations
\* (var_1 outer, var_2 inner, both over df.columns)
LoopVar1(cols, k) == cols[(k \div Len(cols)) + 1]
LoopVar2(cols, k) == cols[(k % Len(cols)) + 1]

\* np.argsort as multipletests uses it: Rank(p, k) is the position of p[k]
\* in the sorted sequence
Rank(p, k) ==
  Cardinality({m \in 1..Len(p) : p[m] < p[k]})
  + Cardinality({m \in 1..k : p[m] = p[k]})

SortInd(p) == [r \in 1..Len(p) |-> CHOOSE k \in 1..Len(p) : Rank(p, k) = r]

\* the Bonferroni value without the cap at 1
BonferroniValue_nocap(p, ntests) == p * ntests

\* one corrected value of the Bonferroni procedure: p * ntests, capped at 1
BonferroniValue(p, ntests) == Min(PScale, p * ntests)

\* multipletests returning the corrected values in sorted order
Bonferroni_sorted(pvals) ==
  LET sortind == SortInd(pvals)
  IN [r \in 1..Len(pvals) |-> BonferroniValue(pvals[sortind[r]], Len(pvals))]

\* statsmodels multipletests(pvals, method="bonferroni")[1]: sort, correct,
\* cap, and write back through sortind
Bonferroni(pvals) ==
  LET sortind == SortInd(pvals)
      sorted == [r \in 1..Len(pvals) |-> pvals[sortind[r]]]
      corrected == [r \in 1..Len(pvals) |-> BonferroniValue(sorted[r], Len(pvals))]
  IN [k \in 1..Len(pvals) |-> corrected[CHOOSE r \in 1..Len(pvals) : sortind[r] = k]]

\* multipletests knows the procedure name
KnownCorrection(c) == c = "bonferroni"

\* `if self.correction:` a None or empty procedure is falsy
Truthy(c) == c # None /\ c # ""

PValues(df) == [k \in 1..Len(df) |-> df[k].pvalue]

\* lines 39-44 of pairwise_correlations: correl_df with its pvalue column
\* replaced by the corrected values when a procedure is set
Corrected(df, c) ==
  IF Truthy(c)
    THEN LET p_corrected == Bonferroni(PValues(df))
         IN [k \in 1..Len(df) |-> [df[k] EXCEPT !.pvalue = p_corrected[k]]]
    ELSE df


\* ------------------------------------------------------------------------
\* Embedders (src/correlnet/embedder.py)
\* ------------------------------------------------------------------------

\* the elements of a set of names in ascending order
Sorted(S) == [k \in 1..Cardinality(S) |-> CHOOSE x \in S : Cardinality({y \in S : y < x}) = k - 1]

\* pd.pivot(correl_df, index="var_1", columns="var_2", values="statistic"):
\* one row per var_1 and one column per var_2, both sorted, NaN where the
\* frame has no row for the pair
Pivot(df) ==
  LET index == Sorted({df[k].var_1 : k \in 1..Len(df)})
      columns == Sorted({df[k].var_2 : k \in 1..Len(df)})
      Cell(a, b) ==
        IF \E k \in 1..Len(df) : df[k].var_1 = a /\ df[k].var_2 = b
          THEN <<df[CHOOSE k \in 1..Len(df) : df[k].var_1 = a /\ df[k].var_2 = b].statistic>>
          ELSE NaN
  IN [index |-> index, columns |-> columns,
      rows |-> [i \in 1..Len(index) |->
                 [of |-> index[i],
                  feats |-> [j \in 1..Len(columns) |-> Cell(index[i], columns[j])]]]]

AbsCell(c) == IF c = NaN THEN NaN ELSE IF c[1] < 0 THEN <<-c[1]>> ELSE c

\* x_df.abs()
AbsRows(rows) ==
  [i \in 1..Len(rows) |->
    [rows[i] EXCEPT !.feats = [j \in 1..Len(rows[i].feats) |-> AbsCell(rows[i].feats[j])]]]

\* df.isna().any().any()
AnyNaN(rows) == \E i \in 1..Len(rows) : \E j \in 1..Len(rows[i].feats) : rows[i].feats[j] = NaN

\* fillna that leaves the frame as it is
FillCell_keep(c) == c

FillCell(c) == IF c = NaN THEN <<0>> ELSE c

\* df.fillna(0)
FillNa(rows) ==
  [i \in 1..Len(rows) |->
    [rows[i] EXCEPT !.feats = [j \in 1..Len(rows[i].feats) |-> FillCell(rows[i].feats[j])]]]

\* TSNEEmbedder.fit_tsne(df, index): the matrix given to TSNE, whether the
\* NaN warning was logged, and the frame of the fitted points: the k-th point
\* embeds the k-th row of the matrix and is labelled index[k]
fit_tsne(rows, index) ==
  LET x == IF AnyNaN(rows) THEN FillNa(rows) ELSE rows
  IN [tsne_in |-> x,
      warned |-> AnyNaN(rows),
      pos_df |-> [k \in 1..Len(x) |-> [index |-> index[k], of |-> x[k].of]]]

\* RandomEmbedder.embed: one random point per column, labelled by df.columns
RandomEmbed(cols) == [k \in 1..Len(cols) |-> [index |-> cols[k], of |-> cols[k]]]

\* VarTSNEEmbedder.embed: fit_tsne(df.transpose(), df.columns); the rows of
\* the transpose are the columns of the table (sample values are not modelled)
VarTSNEEmbed(cols) == fit_tsne([k \in 1..Len(cols) |-> [of |-> cols[k], feats |-> <<>>]], cols)

\* CorrelTSNEEmbedder.embed: pivot, optional abs, fit_tsne(x_df, x_df.index)
CorrelTSNEEmbed(df, use_abs) ==
  LET x_df == Pivot(df)
      rows == IF use_abs THEN AbsRows(x_df.rows) ELSE x_df.rows
  IN fit_tsne(rows, x_df.index)

\* What a caller's Embedder object may return: one point per column, its
\* rows in any order
CustomEmbed(cols) ==
  {[k \in 1..Len(cols) |-> [index |-> cols[q[k]], of |-> cols[q[k]]]] :
     q \in {c \in [1..Len(cols) -> 1..Len(cols)] :
              \A a, b \in 1..Len(cols) : a # b => c[a] # c[b]}}

\* ------------------------------------------------------------------------
\* CorrelNet queries (src/correlnet/correlnet.py)
\* ------------------------------------------------------------------------

\* self.pos_df.loc[var]
Loc(pdf, var) == pdf[CHOOSE k \in 1..Len(pdf) : pdf[k].index = var].of

\* the row filter of plot with the comparison turned round
Significant_ge(df, a) == SelectSeq(df, LAMBDA r : r.pvalue >= a)

\* line 88: self.correl_df[self.correl_df["pvalue"] <= self.alpha]
Significant(df, a) == SelectSeq(df, LAMBDA r : r.pvalue <= a)

\* line 89: the index pair of every row of the filtered frame
EdgeList(cols, sig) ==
  [k \in 1..Len(sig) |-> <<ListIndex(cols, sig[k].var_1), ListIndex(cols, sig[k].var_2)>>]

\* plot taking the k-th row of pos_df for the k-th variable (iloc, not loc)
PlotArgs_positional(cols, pdf, df, a, m) ==
  LET sig == Significant(df, a)
  IN [kind |-> "plot",
      pos |-> [k \in 1..Len(cols) |-> pdf[k].of],
      edge_list |-> EdgeList(cols, sig),
      node_labels |-> cols,
      edge_c |-> [k \in 1..Len(sig) |-> sig[k].statistic],
      edge_cbar_label |-> m]

\* lines 86-93: the arguments plot hands to NetworkPlotter.plot
PlotArgs(cols, pdf, df, a, m) ==
  LET sig == Significant(df, a)
  IN [kind |-> "plot",
      pos |-> [k \in 1..Len(cols) |-> Loc(pdf, cols[k])],
      edge_list |-> EdgeList(cols, sig),
      node_labels |-> cols,
      edge_c |-> [k \in 1..Len(sig) |-> sig[k].statistic],
      edge_cbar_label |-> m]

\* an undirected edge of an nx.Graph is the set of its end points
EdgeOf(r) == {r.var_1, r.var_2}

\* an edge keeping the attributes of the first row that names it
LastRow_first(df, e) ==
  CHOOSE k \in 1..Len(df) :
    EdgeOf(df[k]) = e /\ \A m \in 1..(k - 1) : EdgeOf(df[m]) # e

\* Graph.add_edges_from over the rows in order: adding an edge that exists
\* updates its attribute dict, so an edge keeps the attributes of the last row
\* that names it
LastRow(df, e) ==
  CHOOSE k \in 1..Len(df) :
    EdgeOf(df[k]) = e /\ \A m \in (k + 1)..Len(df) : EdgeOf(df[m]) # e

\* nx.from_pandas_edgelist(df, source="var_1", target="var_2", edge_attr=True):
\* the rows are added in order to an undirected nx.Graph
from_pandas_edgelist(df) ==
  [e \in {EdgeOf(df[k]) : k \in 1..Len(df)} |->
    [statistic |-> df[LastRow(df, e)].statistic, pvalue |-> df[LastRow(df, e)].pvalue]]

\* the edge filter without its self-loop test
edge_filter_loops(G, a, n1, n2) == G[{n1, n2}].pvalue <= a

\* CorrelNet.get_edge_filter: the closure reads self.alpha when it is called
edge_filter(G, a, n1, n2) == G[{n1, n2}].pvalue <= a /\ n1 # n2

\* the edges a graph handed out by to_graph shows under threshold a
\* (nx.subgraph_view evaluates the filter on every access)
VisibleEdges(g, a) ==
  {e \in DOMAIN g.adj :
     ~g.filtered \/ \E n1, n2 \in e : e = {n1, n2} /\ edge_filter(g.adj, a, n1, n2)}


\* ------------------------------------------------------------------------
\* The build: correlnet() and CorrelNet.__init__
\* ------------------------------------------------------------------------
NoOut == [kind |-> "none"]
NoEmbedder == [kind |-> None, use_abs |-> FALSE]

Init ==
  /\ pc = "correlnet"
  /\ err = None
  /\ net = FALSE
  /\ method = None
  /\ correction = None
  /\ embedding = None
  /\ embedder = NoEmbedder
  /\ self_vars = <<>>
  /\ alpha = 0
  /\ cor_dfs = <<>>
  /\ calls = <<>>
  /\ ncorrect = 0
  /\ nembed = 0
  /\ embed_arg = <<>>
  /\ correl_df = <<>>
  /\ pos_df = <<>>
  /\ tsne_in = <<>>
  /\ warned = FALSE
  /\ out = NoOut

\* an exception that is recorded and swallowed: the build goes on
Raise_swallowed(e) ==
  /\ pc' = "embed"
  /\ err' = e

\* an exception leaves the build: nothing is returned to the caller
Raise(e) ==
  /\ pc' = "failed"
  /\ err' = e

\* correlnet(), lines 35-51, up to the first statements of CorrelNet.__init__
\* (lines 71-75): the Correlater is constructed, the embedding choice is
\* resolved, and the fields df, vars, correlater, embedder, alpha are set
Correlnet ==
  /\ pc = "correlnet"
  /\ \E m \in Methods, c \in Corrections, e \in Embeddings, a \in AlphaVals,
        cols \in Tables, use_abs \in BOOLEAN :
       /\ method' = m
       /\ correction' = c
       /\ embedding' = e
       /\ \/ /\ e \in {"random", "var_tsne", "EmbedderObject"}
             /\ use_abs = FALSE
             /\ embedder' = [kind |-> e, use_abs |-> FALSE]
             /\ self_vars' = cols
             /\ alpha' = a
             /\ pc' = "cor_fn"
             /\ err' = err
          \/ /\ e = "correl_tsne"
             /\ embedder' = [kind |-> e, use_abs |-> use_abs]
             /\ self_vars' = cols
             /\ alpha' = a
             /\ pc' = "cor_fn"
             /\ err' = err
          \/ \* line 49; alpha, the table and use_abs are not used on this path
             /\ e \notin {"random", "var_tsne", "correl_tsne", "EmbedderObject"}
             /\ use_abs = FALSE
             /\ a = 0
             /\ cols = <<1>>
             /\ Raise("NotImplementedError: embedding")
             /\ UNCHANGED <<embedder, self_vars, alpha>>
  /\ UNCHANGED <<net, cor_dfs, calls, ncorrect, nembed, embed_arg, correl_df, pos_df,
                 tsne_in, warned, out>>

\* pairwise_correlations line 28: cor_fn = self.cor_fn()
CorFn ==
  /\ pc = "cor_fn"
  /\ \/ /\ cor_fn(method) # "NotImplementedError"
        /\ pc' = "pairs"
        /\ err' = err
     \/ /\ cor_fn(method) = "NotImplementedError"
        /\ Raise("NotImplementedError: method")
  /\ UNCHANGED <<net, method, correction, embedding, embedder, self_vars, alpha, cor_dfs, calls,
                 ncorrect, nembed, embed_arg, correl_df, pos_df, tsne_in, warned, out>>

\* pairwise_correlations lines 30-35: one pass of the inner loop
PairCall ==
  /\ pc = "pairs"
  /\ Len(cor_dfs) < Len(self_vars) * Len(self_vars)
  /\ LET var_1 == LoopVar1(self_vars, Len(cor_dfs))
         var_2 == LoopVar2(self_vars, Len(cor_dfs))
     IN \E r \in MethodOut(cor_fn(method), var_1, var_2, cor_dfs) :
          /\ calls' = Append(calls, [x |-> var_1, y |-> var_2,
                                     statistic |-> r.statistic, pvalue |-> r.pvalue])
          /\ cor_dfs' = Append(cor_dfs, [var_1 |-> var_1, var_2 |-> var_2,
                                         statistic |-> r.statistic, pvalue |-> r.pvalue])
  /\ UNCHANGED <<pc, err, net, method, correction, embedding, embedder, self_vars, alpha,
                 ncorrect, nembed, embed_arg, correl_df, pos_df, tsne_in, warned, out>>

\* line 33: the method function raises (a caller's function, or scipy on
\* columns it rejects); the exception is not caught
PairRaise ==
  /\ pc = "pairs"
  /\ Len(cor_dfs) < Len(self_vars) * Len(self_vars)
  /\ Raise("method raised")
  /\ UNCHANGED <<net, method, correction, embedding, embedder, self_vars, alpha, cor_dfs, calls,
                 ncorrect, nembed, embed_arg, correl_df, pos_df, tsne_in, warned, out>>

\* pairwise_correlations lines 36-44 and CorrelNet.__init__ line 77: concat,
\* correction, and the assignment of the result to self.correl_df
Correct ==
  /\ pc = "pairs"
  /\ Len(cor_dfs) = Len(self_vars) * Len(self_vars)
  /\ \/ /\ ~Truthy(correction)
        /\ correl_df' = Corrected(cor_dfs, correction)
        /\ ncorrect' = ncorrect
        /\ pc' = "embed"
        /\ err' = err
     \/ /\ Truthy(correction)
        /\ KnownCorrection(correction)
        /\ correl_df' = Corrected(cor_dfs, correction)
        /\ ncorrect' = ncorrect + 1
        /\ pc' = "embed"
        /\ err' = err
     \/ /\ Truthy(correction)
        /\ ~KnownCorrection(correction)
        /\ ncorrect' = ncorrect + 1
        /\ Raise("ValueError: method not recognized")
        /\ UNCHANGED correl_df
  /\ UNCHANGED <<net, method, correction, embedding, embedder, self_vars, alpha, cor_dfs, calls,
                 nembed, embed_arg, pos_df, tsne_in, warned, out>>

\* CorrelNet.__init__ lines 79-80 and the return of correlnet(): the embedder
\* is called with self.correl_df; when it returns, the positions are stored
\* and the network is returned to the caller
EmbedDone(r) ==
  /\ pos_df' = r.pos_df
  /\ tsne_in' = r.tsne_in
  /\ warned' = r.warned
  /\ pc' = "done"
  /\ net' = TRUE
  /\ err' = err

EmbedRaise(e) ==
  /\ Raise(e)
  /\ UNCHANGED <<net, pos_df, tsne_in, warned>>

Embed ==
  /\ pc = "embed"
  /\ nembed' = nembed + 1
  /\ embed_arg' = correl_df
  /\ \/ /\ embedder.kind = "random"
        /\ EmbedDone([pos_df |-> RandomEmbed(self_vars), tsne_in |-> tsne_in,
                      warned |-> warned])
     \/ /\ embedder.kind = "var_tsne"
        /\ EmbedDone(VarTSNEEmbed(self_vars))
     \/ /\ embedder.kind = "correl_tsne"
        /\ EmbedDone(CorrelTSNEEmbed(correl_df, embedder.use_abs))
     \/ /\ embedder.kind = "correl_tsne"
        \* pd.pivot looks var_1 and var_2 up among the columns of the frame;
        \* set_index (line 36) has made them index levels
        /\ EmbedRaise("KeyError: var_1")
     \/ /\ embedder.kind \in {"var_tsne", "correl_tsne"}
        \* TSNE rejects its configuration for this number of points
        /\ EmbedRaise("ValueError: TSNE")
     \/ /\ embedder.kind = "EmbedderObject"
        /\ \E p \in CustomEmbed(self_vars) :
             EmbedDone([pos_df |-> p, tsne_in |-> tsne_in, warned |-> warned])
     \/ /\ embedder.kind = "EmbedderObject"
        /\ EmbedRaise("embedder raised")
  /\ UNCHANGED <<method, correction, embedding, embedder, self_vars, alpha, cor_dfs, calls,
                 ncorrect, correl_df, out>>

\* ------------------------------------------------------------------------
\* Operations on a built network
\* ------------------------------------------------------------------------

\* the caller assigns net.alpha
SetAlpha ==
  /\ net
  /\ \E a \in AlphaVals : alpha' = a
  /\ UNCHANGED <<pc, err, net, method, correction, embedding, embedder, self_vars, cor_dfs, calls,
                 ncorrect, nembed, embed_arg, correl_df, pos_df, tsne_in, warned, out>>

\* CorrelNet.plot
Plot ==
  /\ net
  /\ out' = PlotArgs(self_vars, pos_df, correl_df, alpha, method)
  /\ UNCHANGED <<pc, err, net, method, correction, embedding, embedder, self_vars, alpha, cor_dfs,
                 calls, ncorrect, nembed, embed_arg, correl_df, pos_df, tsne_in, warned>>

\* CorrelNet.to_graph(apply_filter)
ToGraph ==
  /\ net
  /\ \E apply_filter \in BOOLEAN :
       out' = [kind |-> "graph", adj |-> from_pandas_edgelist(correl_df),
               filtered |-> apply_filter]
  /\ UNCHANGED <<pc, err, net, method, correction, embedding, embedder, self_vars, alpha, cor_dfs,
                 calls, ncorrect, nembed, embed_arg, correl_df, pos_df, tsne_in, warned>>

Next ==
  \/ Correlnet
  \/ CorFn
  \/ PairCall
  \/ PairRaise
  \/ Correct
  \/ Embed
  \/ SetAlpha
  \/ Plot
  \/ ToGraph

Spec == Init /\ [][Next]_vars

\* ------------------------------------------------------------------------
\* CorrelTSNEEmbedder.embed on its own: the embedder is called with a frame
\* of pairwise results that has var_1, var_2 and statistic as columns
\* ------------------------------------------------------------------------
AllPairs == Names \X Names

\* the frames a caller may pass: at most one row per ordered pair, any pairs
\* missing, the rows in row-major order of the names
FrameOf(present, stat) ==
  LET pairs == Sorted({(q[1] - 1) * MaxN + q[2] : q \in present})
  IN [k \in 1..Len(pairs) |->
       LET a == ((pairs[k] - 1) \div MaxN) + 1
           b == ((pairs[k] - 1) % MaxN) + 1
       IN [var_1 |-> a, var_2 |-> b, statistic |-> stat[<<a, b>>]]]

InitEmbed ==
  /\ pc = "embed_call"
  /\ err = None
  /\ net = FALSE
  /\ method = None
  /\ correction = None
  /\ embedding = "correl_tsne"
  /\ \E use_abs \in BOOLEAN : embedder = [kind |-> "correl_tsne", use_abs |-> use_abs]
  /\ self_vars = <<>>
  /\ alpha = 0
  /\ cor_dfs = <<>>
  /\ calls = <<>>
  /\ ncorrect = 0
  /\ nembed = 0
  /\ \E present \in (SUBSET AllPairs) \ {{}} :
       \E stat \in [present -> {-1, 1}] : embed_arg = FrameOf(present, stat)
  /\ correl_df = <<>>
  /\ pos_df = <<>>
  /\ tsne_in = <<>>
  /\ warned = FALSE
  /\ out = NoOut

\* CorrelTSNEEmbedder.embed(df, correl_df), lines 84-89
EmbedCall ==
  /\ pc = "embed_call"
  /\ nembed' = nembed + 1
  /\ \/ LET r == CorrelTSNEEmbed(embed_arg, embedder.use_abs)
        IN /\ pos_df' = r.pos_df
           /\ tsne_in' = r.tsne_in
           /\ warned' = r.warned
           /\ pc' = "embed_returned"
           /\ err' = err
     \/ \* TSNE rejects its configuration for this number of points
        /\ pc' = "embed_failed"
        /\ err' = "ValueError: TSNE"
        /\ UNCHANGED <<pos_df, tsne_in, warned>>
  /\ UNCHANGED <<net, method, correction, embedding, embedder, self_vars, alpha, cor_dfs,
                 calls, ncorrect, embed_arg, correl_df, out>>

NextEmbed == EmbedCall

SpecEmbed == InitEmbed /\ [][NextEmbed]_vars


\* ------------------------------------------------------------------------
\* Properties
\* ------------------------------------------------------------------------
N == Len(self_vars)
Idx == 0..(N - 1)
VarAt(i) == self_vars[i + 1]
Range(f) == {f[k] : k \in DOMAIN f}

\* the row of a frame for the ordered pair (a, b) of variable names
Row(df, a, b) == df[CHOOSE k \in 1..Len(df) : df[k].var_1 = a /\ df[k].var_2 = b]

\* the stored p-value and statistic of the ordered index pair (i, j)
PValue(i, j) == Row(correl_df, VarAt(i), VarAt(j)).pvalue
Statistic(i, j) == Row(correl_df, VarAt(i), VarAt(j)).statistic

\* the ordered pairs that pass the edge rule of the specification at threshold a
OffDiagonalSignificant(a) == {<<i, j>> \in Idx \X Idx : i # j /\ PValue(i, j) <= a}

\* a step that is a call of plot: the renderer's arguments are new, alpha is not
PlotStep == out'.kind = "plot" /\ alpha' = alpha /\ net

\* C1: the edge list plot hands to the renderer holds (i, j) iff i # j and
\* pvalue(i, j) <= alpha; no self-pair is ever in it.
C1_PlotEdgeListIsOffDiagonalSignificant ==
  [][PlotStep => Range(out'.edge_list) = OffDiagonalSignificant(alpha)]_vars

\* the edges a filtered graph shows, as unordered pairs of indices
GraphShows(i, j) == {VarAt(i), VarAt(j)} \in VisibleEdges(out, alpha)

FilteredGraphOut == net /\ out.kind = "graph" /\ out.filtered

\* C2 (as stated): in the graph of to_graph(apply_filter=True) there is an edge
\* between i and j iff i # j and pvalue(i, j) <= alpha.
C2_GraphEdgeIffPairSignificant ==
  FilteredGraphOut =>
    \A i, j \in Idx : GraphShows(i, j) <=> (i # j /\ PValue(i, j) <= alpha)

\* of the two ordered pairs of i and j, the one written later in row-major order
LaterPair(i, j) == IF i <= j THEN <<j, i>> ELSE <<i, j>>

\* C2 (amended): in the graph of to_graph(apply_filter=True) there is an edge
\* between i and j iff i # j and the p-value of the ordered pair of i and j
\* that comes later in row-major order is <= alpha; no self-loop shows at any
\* alpha, and every visible edge joins two distinct variables of the network.
C2_GraphEdgeIffLaterPairSignificant ==
  FilteredGraphOut =>
    /\ \A i, j \in Idx :
         GraphShows(i, j) <=>
           (i # j /\ PValue(LaterPair(i, j)[1], LaterPair(i, j)[2]) <= alpha)
    /\ \A e \in VisibleEdges(out, alpha) :
         Cardinality(e) = 2 /\ e \subseteq Range(self_vars)

\* a filtered graph over a matrix that is not symmetric, showing an edge whose
\* first-written pair is not significant
C2_Witness ==
  /\ FilteredGraphOut
  /\ \E i, j \in Idx :
       /\ i < j
       /\ PValue(i, j) > alpha
       /\ PValue(j, i) <= alpha
       /\ GraphShows(i, j)

\* a step that hands out a filtered graph (a graph view follows alpha)
FilteredGraphAfter == net' /\ out'.kind = "graph" /\ out'.filtered

\* C3: the filtered edge set is empty at alpha = 0 and is the set of all
\* off-diagonal pairs at alpha = 1, in plot's edge list and in the graph.
C3_EdgeSetAtZeroAndOne ==
  [][/\ PlotStep /\ alpha = 0 => Range(out'.edge_list) = {}
     /\ PlotStep /\ alpha = PScale =>
          Range(out'.edge_list) = {<<i, j>> \in Idx \X Idx : i # j}
     /\ FilteredGraphAfter /\ alpha' = 0 => VisibleEdges(out', alpha') = {}
     /\ FilteredGraphAfter /\ alpha' = PScale =>
          VisibleEdges(out', alpha') =
            {{VarAt(i), VarAt(j)} : <<i, j>> \in {q \in Idx \X Idx : q[1] # q[2]}}
    ]_vars

\* what to_graph(apply_filter=True) and plot show in the current state
GraphEdgesNow ==
  VisibleEdges([adj |-> from_pandas_edgelist(correl_df), filtered |-> TRUE], alpha)
PlotEdgesNow == Range(EdgeList(self_vars, Significant(correl_df, alpha)))

\* C4: on a built network, no step (assignment to alpha, plot, to_graph)
\* calls the method function, the corrector or the embedder, or changes a
\* stored statistic, p-value or position; raising alpha removes no edge from
\* what to_graph and plot show; a graph handed out before the change shows
\* what a new to_graph shows, and a plot uses the current alpha.
C4_RaisingAlphaOnlyRefilters ==
  [][net =>
       /\ calls' = calls /\ ncorrect' = ncorrect /\ nembed' = nembed
       /\ correl_df' = correl_df /\ pos_df' = pos_df /\ net'
       /\ alpha' > alpha =>
            /\ GraphEdgesNow \subseteq GraphEdgesNow'
            /\ PlotEdgesNow \subseteq PlotEdgesNow'
            /\ FilteredGraphAfter => VisibleEdges(out', alpha') = GraphEdgesNow'
       /\ PlotStep =>
            Range(out'.edge_list) =
              {<<i, j>> \in Idx \X Idx : PValue(i, j) <= alpha}
    ]_vars

\* a plot made at a lower threshold is still in hand: the current threshold
\* shows strictly more edges than that plot did
C4_Witness ==
  /\ net
  /\ out.kind = "plot"
  /\ Range(out.edge_list) \subseteq PlotEdgesNow
  /\ Range(out.edge_list) # PlotEdgesNow
  /\ GraphEdgesNow # {}

\* C5: no Network is returned by a build whose alpha is outside [0, 1].
C5_BuildRejectsAlphaOutsideUnitInterval ==
  [][~net /\ net' => alpha' \in 0..PScale]_vars

\* self.correl_df has been assigned (pairwise_correlations has returned)
Assigned == Len(correl_df) > 0

\* the k-th p-value after the correction step, from the k-th value the method
\* returned
ExpectedPValue(k) ==
  IF correction = "bonferroni"
    THEN Min(PScale, calls[k].pvalue * (N * N))
    ELSE calls[k].pvalue

\* C6: the correction step maps the flat sequence of the k = n * n p-values
\* element by element: under bonferroni each value becomes min(1, p * k),
\* under a null or empty procedure each value is unchanged; with PScale = 100,
\* [0.01, 0.02, 0.5] becomes [0.03, 0.06, 1.0].
C6_CorrectionElementwise ==
  /\ Assigned =>
       /\ Len(calls) = N * N
       /\ Len(correl_df) = Len(calls)
       /\ correction \in {"bonferroni", None, ""}
       /\ \A k \in 1..Len(calls) : correl_df[k].pvalue = ExpectedPValue(k)
       /\ Bonferroni(<<1, 2, PScale \div 2>>) = <<3, 6, PScale>>

\* two variables, bonferroni: one value multiplied and below 1, one capped at 1
C6_Witness ==
  /\ Assigned
  /\ N = 2
  /\ correction = "bonferroni"
  /\ \E k \in 1..Len(calls) :
       calls[k].pvalue > 0 /\ correl_df[k].pvalue = 4 * calls[k].pvalue
  /\ \E k \in 1..Len(calls) :
       calls[k].pvalue < PScale /\ 4 * calls[k].pvalue > PScale
         /\ correl_df[k].pvalue = PScale

\* C7: the matrix of pairwise_correlations has n * n rows, one per ordered
\* pair in row-major order of the columns, each from its own call of the
\* method on that pair; correction keeps length, order and statistics, and
\* each corrected p-value is in the slot of the pair it was computed for.
C7_MatrixRowMajorOnePerPair ==
  Assigned =>
    /\ Len(correl_df) = N * N
    /\ Len(calls) = N * N
    /\ \A i, j \in Idx :
         LET k == i * N + j + 1
         IN /\ correl_df[k].var_1 = VarAt(i)
            /\ correl_df[k].var_2 = VarAt(j)
            /\ calls[k].x = VarAt(i)
            /\ calls[k].y = VarAt(j)
            /\ correl_df[k].statistic = calls[k].statistic
            /\ correl_df[k].pvalue = ExpectedPValue(k)

\* two variables, bonferroni, and p-values that the corrector's sort reorders
C7_Witness ==
  /\ Assigned
  /\ N = 2
  /\ correction = "bonferroni"
  /\ \E k, m \in 1..Len(calls) :
       k < m /\ calls[k].pvalue > calls[m].pvalue /\ correl_df[k].pvalue > correl_df[m].pvalue

\* C8: the build runs engine, corrector, embedder in that order: the n * n
\* pair evaluations are done before correction, correction before the
\* embedder, and the embedder receives the corrected matrix; when a step fails
\* the later steps are not run, the error leaves the build and no Network is
\* returned.
C8_BuildStepsInOrder ==
  /\ ncorrect > 0 => Len(calls) = N * N
  /\ nembed > 0 =>
       /\ Len(calls) = N * N
       /\ Truthy(correction) => ncorrect = 1
       /\ embed_arg = correl_df
       /\ Len(embed_arg) = N * N
       /\ \A k \in 1..Len(embed_arg) :
            /\ embed_arg[k].pvalue = ExpectedPValue(k)
            /\ embed_arg[k].statistic = calls[k].statistic
  /\ Len(calls) < N * N => ncorrect = 0 /\ nembed = 0 /\ ~Assigned
  /\ err # None <=> pc = "failed"
  /\ pc = "failed" => ~net /\ out.kind = "none" /\ pos_df = <<>>
  /\ err \in {"NotImplementedError: embedding", "NotImplementedError: method"} =>
       calls = <<>> /\ ncorrect = 0 /\ nembed = 0
  /\ err = "method raised" => ncorrect = 0 /\ nembed = 0 /\ ~Assigned
  /\ err = "ValueError: method not recognized" => nembed = 0 /\ ~Assigned
  /\ net => pc = "done" /\ nembed = 1 /\ Len(pos_df) = N /\ Assigned

\* the corrector fails after all four pair evaluations; the embedder is not run
C8_Witness ==
  /\ pc = "failed"
  /\ err = "ValueError: method not recognized"
  /\ N = 2
  /\ Len(calls) = 4
  /\ nembed = 0
  /\ ~net

KnownEmbeddings == {"random", "var_tsne", "correl_tsne", "EmbedderObject"}
KnownMethods == BuiltinMethods \cup {"callable"}

\* C9: a build given an unrecognized method, correction procedure or embedding
\* choice fails with the error for that value, unless an earlier step has
\* failed already, and returns no Network.
C9_UnrecognizedConfigurationFails ==
  /\ embedding \notin KnownEmbeddings \cup {None} =>
       /\ pc = "failed"
       /\ err = "NotImplementedError: embedding"
       /\ calls = <<>>
  /\ method = "bogus_method" /\ embedding \in KnownEmbeddings =>
       /\ pc \in {"cor_fn", "failed"}
       /\ pc = "failed" => err = "NotImplementedError: method"
       /\ calls = <<>>
  /\ correction = "bogus_correction" /\ method \in KnownMethods
       /\ embedding \in KnownEmbeddings =>
       /\ pc \in {"cor_fn", "pairs", "failed"}
       /\ pc = "failed" => err \in {"method raised", "ValueError: method not recognized"}
       /\ pc = "failed" /\ Len(calls) = N * N => err = "ValueError: method not recognized"
  /\ method = "bogus_method" \/ correction = "bogus_correction"
       \/ embedding \notin KnownEmbeddings \cup {None} =>
       ~net /\ pos_df = <<>>

\* a build with an unknown method string has failed in cor_fn
C9_Witness ==
  /\ pc = "failed"
  /\ method = "bogus_method"
  /\ err = "NotImplementedError: method"
  /\ ~net


\* the variables named in the first and in the second column of a frame
Var1s(df) == {df[k].var_1 : k \in 1..Len(df)}
Var2s(df) == {df[k].var_2 : k \in 1..Len(df)}
HasRow(df, a, b) == \E k \in 1..Len(df) : df[k].var_1 = a /\ df[k].var_2 = b

\* the pivot of the frame is not square, or has a missing entry
NotSquare(df) == Cardinality(Var1s(df)) # Cardinality(Var2s(df))
MissingEntry(df) == \E a \in Var1s(df), b \in Var2s(df) : ~HasRow(df, a, b)

ExpectedCell(df, a, b, use_abs) ==
  IF ~HasRow(df, a, b) THEN <<0>>
  ELSE IF use_abs /\ Row(df, a, b).statistic < 0 THEN <<-Row(df, a, b).statistic>>
  ELSE <<Row(df, a, b).statistic>>

PassingRows(a) ==
  LET keep == {k \in 1..Len(correl_df) : correl_df[k].pvalue <= a}
  IN [m \in 1..Cardinality(keep) |->
       correl_df[CHOOSE k \in keep : Cardinality({h \in keep : h < k}) = m - 1]]

\* C11: whatever order the embedder returned its rows in, the position list
\* plot hands to the renderer has one entry per variable, the k-th being the
\* point the embedder computed for the k-th variable of the column order; the
\* node labels are the variables in that order; and every edge is a pair of
\* indices in 0..n-1 into that order, the m-th edge being the pair of the m-th
\* row whose p-value is <= alpha, with that row's statistic as its colour.
C11_PlotPositionsAndEdgesFollowColumnOrder ==
  [][PlotStep =>
       /\ Len(out'.pos) = N
       /\ out'.node_labels = self_vars
       /\ \A k \in 1..N : out'.pos[k] = self_vars[k]
       /\ \A k \in 1..N : \E r \in 1..Len(pos_df) :
            pos_df[r].index = self_vars[k] /\ pos_df[r].of = out'.pos[k]
       /\ Len(out'.edge_list) = Len(PassingRows(alpha))
       /\ Len(out'.edge_c) = Len(out'.edge_list)
       /\ \A m \in 1..Len(out'.edge_list) :
            LET e == out'.edge_list[m]
                r == PassingRows(alpha)[m]
            IN /\ e[1] \in Idx /\ e[2] \in Idx
               /\ VarAt(e[1]) = r.var_1 /\ VarAt(e[2]) = r.var_2
               /\ PValue(e[1], e[2]) <= alpha
               /\ out'.edge_c[m] = r.statistic
    ]_vars

\* a plot of a network whose embedder returned its rows in another order than
\* the table's columns, with an edge between two distinct variables
C11_Witness ==
  /\ net
  /\ out.kind = "plot"
  /\ \E k \in 1..N : pos_df[k].index # self_vars[k]
  /\ \A k \in 1..N : out.pos[k] = self_vars[k]
  /\ \E m \in 1..Len(out.edge_list) : out.edge_list[m][1] # out.edge_list[m][2]

\* C12: the one undirected edge to_graph keeps for the pair {i, j}, i before j
\* in the variable order, carries the statistic and the p-value of the ordered
\* pair (j, i), the one written later in row-major order; under the filter it
\* is visible iff pvalue(j, i) <= alpha, whatever pvalue(i, j) is; plot lists
\* the ordered pair (i, j) iff pvalue(i, j) <= alpha and (j, i) iff
\* pvalue(j, i) <= alpha, each on its own p-value.
C12_GraphEdgeCarriesLaterOrderedPair ==
  net /\ out.kind = "graph" =>
    \A i, j \in Idx :
      i < j =>
        /\ {VarAt(i), VarAt(j)} \in DOMAIN out.adj
        /\ out.adj[{VarAt(i), VarAt(j)}] =
             [statistic |-> Statistic(j, i), pvalue |-> PValue(j, i)]
        /\ out.filtered => (GraphShows(i, j) <=> PValue(j, i) <= alpha)
        /\ ~out.filtered => GraphShows(i, j)
        /\ <<i, j>> \in PlotEdgesNow <=> PValue(i, j) <= alpha
        /\ <<j, i>> \in PlotEdgesNow <=> PValue(j, i) <= alpha

\* a filtered graph of a network built with a caller's method whose matrix is
\* not symmetric: the pair (i, j) passes the threshold and is an edge of plot,
\* the pair (j, i) does not, and the graph shows no edge between i and j
C12_Witness ==
  /\ FilteredGraphOut
  /\ method = "callable"
  /\ \E i, j \in Idx :
       /\ i < j
       /\ PValue(i, j) <= alpha
       /\ PValue(j, i) > alpha
       /\ Statistic(i, j) # Statistic(j, i)
       /\ out.adj[{VarAt(i), VarAt(j)}].pvalue = PValue(j, i)
       /\ ~GraphShows(i, j)
       /\ <<i, j>> \in PlotEdgesNow
       /\ <<j, i>> \notin PlotEdgesNow

====
